---- MODULE Spec2Model ----
(***************************************************************************)
(* A model of vtds-provider-mock: the Layer API facade (provider.py), the  *)
(* lifecycle controller (private/private_provider.py) and the Virtual      *)
(* Blade registry with its scoped Blade Connections                        *)
(* (private/api_objects.py).                                               *)
(*                                                                         *)
(* Python values are tagged records [t, v] so that the type tests the code *)
(* depends on (isinstance, int() of a str or of a non-str) are decidable.  *)
(* A str that the code parses as a number is a sequence of characters.     *)
(* A dict is a function on its keys; a dict whose iteration order matters  *)
(* (virtual_blades) is a sequence of [name, entry] items.                  *)
(***************************************************************************)
EXTENDS Integers, Sequences, FiniteSets, TLC

VARIABLES config, api, private, heap, scope, call, out, prepareCalled

vars == <<config, api, private, heap, scope, call, out, prepareCalled>>

----------------------------------------------------------------------------
(* Python values *)

PyNone == [t |-> "NoneType"]
PyInt(n) == [t |-> "int", v |-> n]
PyStr(s) == [t |-> "str", v |-> s]
PyList(s) == [t |-> "list", v |-> s]

(* The outcome of a call: a returned value or a raised exception. *)
Return(value) == [outcome |-> "return", value |-> value, exc |-> "", msg |-> ""]
Raise(exc, msg) == [outcome |-> "raise", value |-> PyNone, exc |-> exc, msg |-> msg]

EmptyDict == [k \in {} |-> k]

(* dict.get(key, default) *)
dict_get(d, key, default) == IF key \in DOMAIN d THEN d[key] ELSE default

(* The same on an insertion-ordered dict kept as a sequence of items. *)
odict_keys(od) == [i \in 1..Len(od) |-> od[i].name]
odict_has(od, key) == \E i \in 1..Len(od) : od[i].name = key
odict_item(od, key) == od[CHOOSE i \in 1..Len(od) : od[i].name = key].entry

----------------------------------------------------------------------------
(* int(x) and int(x, 0) *)

Digits == {"0", "1", "2", "3", "4", "5", "6", "7", "8", "9"}

DigitVal(c) ==
    CASE c = "0" -> 0 [] c = "1" -> 1 [] c = "2" -> 2 [] c = "3" -> 3
      [] c = "4" -> 4 [] c = "5" -> 5 [] c = "6" -> 6 [] c = "7" -> 7
      [] c = "8" -> 8 [] c = "9" -> 9

IsDigits(s) == Len(s) > 0 /\ \A i \in 1..Len(s) : s[i] \in Digits

RECURSIVE DecValue(_)
DecValue(s) ==
    IF Len(s) = 0 THEN 0
    ELSE DecValue(SubSeq(s, 1, Len(s) - 1)) * 10 + DigitVal(s[Len(s)])

(* int(x): a number is itself, a str is read as a decimal numeral (leading *)
(* zeros allowed), None is a TypeError.                                    *)
py_int(x) ==
    CASE x.t = "int" -> Return(x)
      [] x.t = "str" ->
            IF IsDigits(x.v) THEN Return(PyInt(DecValue(x.v)))
            ELSE Raise("ValueError", "invalid literal for int() with base 10")
      [] OTHER -> Raise("TypeError", "int() argument must be a string or a number")

(* int(x, 0): only a str is accepted with an explicit base; base 0 reads   *)
(* the str as an integer literal, which may not have a leading zero unless *)
(* it is zero.                                                             *)
py_int_base0(x) ==
    IF x.t # "str"
    THEN Raise("TypeError", "int() can't convert non-string with explicit base")
    ELSE IF IsDigits(x.v) /\ (x.v[1] # "0" \/ DecValue(x.v) = 0)
         THEN Return(PyInt(DecValue(x.v)))
         ELSE Raise("ValueError", "invalid literal for int() with base 0")

----------------------------------------------------------------------------
(* PrivateVirtualBlades: every operation reads self.config, here cfg. *)

(* self.config.get('provider', {}).get('virtual_blades', {}) *)
provider_virtual_blades(cfg) ==
    dict_get(dict_get(cfg, "provider", EmptyDict), "virtual_blades", <<>>)

(* self.config.get('virtual_blades', {}) *)
top_virtual_blades(cfg) == dict_get(cfg, "virtual_blades", <<>>)

(* name for name in virtual_blades if not ...get('pure_base_class', False) *)
non_base_names_unfiltered(virtual_blades) == odict_keys(virtual_blades)

non_base_names(virtual_blades) ==
    SelectSeq(odict_keys(virtual_blades),
              LAMBDA name : ~dict_get(odict_item(virtual_blades, name),
                                      "pure_base_class", FALSE))

__get_blade(cfg, blade_type) ==
    IF odict_has(provider_virtual_blades(cfg), blade_type)
    THEN Return(odict_item(provider_virtual_blades(cfg), blade_type))
    ELSE Raise("ContextualError", "unknown blade type")

__check_instance(cfg, blade_type, instance) ==
    IF instance.t # "int"
    THEN Raise("ContextualError", "instance number must be integer")
    ELSE LET blade == __get_blade(cfg, blade_type) IN
         IF blade.outcome = "raise" THEN blade
         ELSE LET count == py_int_base0(dict_get(blade.value, "count", PyNone)) IN
              IF count.outcome = "raise" THEN count
              ELSE IF instance.v < 0 \/ instance.v >= count.value.v
                   THEN Raise("ContextualError", "instance number out of range")
                   ELSE Return(PyNone)

blade_types(cfg) == Return(PyList(non_base_names(top_virtual_blades(cfg))))

blade_count(cfg, blade_type) ==
    LET blade == __get_blade(cfg, blade_type) IN
    IF blade.outcome = "raise" THEN blade
    ELSE py_int(dict_get(blade.value, "count", PyInt(0)))

(* blade.get(key, [])[instance], after the instance check *)
indexed(cfg, blade_type, instance, key) ==
    LET checked == __check_instance(cfg, blade_type, instance) IN
    IF checked.outcome = "raise" THEN checked
    ELSE LET list == dict_get(__get_blade(cfg, blade_type).value, key, <<>>) IN
         IF instance.v + 1 \in 1..Len(list)
         THEN Return(PyStr(list[instance.v + 1]))
         ELSE Raise("IndexError", "list index out of range")

blade_hostname(cfg, blade_type, instance) ==
    indexed(cfg, blade_type, instance, "hostnames")

blade_ip_by_interconnect(cfg, blade_type, instance, interconnect) ==
    IF interconnect = "net0" THEN indexed(cfg, blade_type, instance, "ips")
    ELSE Raise("ContextualError", "no address on that interconnect")

blade_ip(cfg, blade_type, instance, interconnect) ==
    indexed(cfg, blade_type, instance, "ips")

----------------------------------------------------------------------------
(* PrivateBladeInterconnects: every operation reads self.config, here cfg. *)

(* d[key] = entry on an insertion-ordered dict: a key that is there keeps  *)
(* its place and takes the new entry.                                      *)
odict_set(od, key, entry) ==
    IF odict_has(od, key)
    THEN [i \in 1..Len(od) |-> IF od[i].name = key THEN [name |-> key, entry |-> entry]
                               ELSE od[i]]
    ELSE Append(od, [name |-> key, entry |-> entry])

(* The dict comprehension of __interconnects_by_name over items i.. of     *)
(* blade_interconnects: the filter is evaluated before the key, and a      *)
(* missing 'network_name' is a KeyError, reported as a ContextualError.    *)
RECURSIVE by_name_from(_, _, _)
by_name_from(blade_interconnects, i, made) ==
    IF i > Len(blade_interconnects) THEN Return(made)
    ELSE LET interconnect == blade_interconnects[i].entry IN
         IF dict_get(interconnect, "pure_base_class", FALSE)
         THEN by_name_from(blade_interconnects, i + 1, made)
         ELSE IF "network_name" \notin DOMAIN interconnect
              THEN Raise("ContextualError", "'network_name' not specified")
              ELSE by_name_from(blade_interconnects, i + 1,
                       odict_set(made, interconnect["network_name"], interconnect))

__interconnects_by_name(cfg) ==
    by_name_from(dict_get(cfg, "blade_interconnects", <<>>), 1, <<>>)

interconnect_names(cfg) ==
    LET by_name == __interconnects_by_name(cfg) IN
    IF by_name.outcome = "raise" THEN by_name
    ELSE Return(PyList(odict_keys(by_name.value)))

(* self.config.get("provider", {}).get("blade_interconnects", {}) *)
provider_blade_interconnects(cfg) ==
    dict_get(dict_get(cfg, "provider", EmptyDict), "blade_interconnects", <<>>)

ipv4_cidr(cfg, interconnect_name) ==
    LET blade_interconnects == provider_blade_interconnects(cfg) IN
    IF ~odict_has(blade_interconnects, interconnect_name)
    THEN Raise("ContextualError", "unknown blade interconnect")
    ELSE LET interconnect == odict_item(blade_interconnects, interconnect_name) IN
         IF "ipv4_cidr" \notin DOMAIN interconnect
         THEN Raise("ContextualError", "no 'ipv4_cidr' found in blade interconnect")
         ELSE Return(PyStr(interconnect["ipv4_cidr"]))

----------------------------------------------------------------------------
(* PrivateBladeConnection *)

LocPort == 12345

_connect(c) == [c EXCEPT !.loc_port = PyInt(LocPort)]

_disconnect_keeps_port(c) == c

_disconnect(c) == [c EXCEPT !.loc_port = PyNone]

PrivateBladeConnection_unconnected(hostname, remote_port, blade_type) ==
    [hostname |-> hostname, blade_type |-> PyStr(blade_type),
     remote_port |-> remote_port, local_ip |-> PyStr("127.0.0.1"),
     loc_port |-> PyNone]

PrivateBladeConnection(hostname, remote_port, blade_type) ==
    _connect([hostname |-> hostname, blade_type |-> PyStr(blade_type),
             remote_port |-> remote_port, local_ip |-> PyStr("127.0.0.1"),
             loc_port |-> PyNone])

(* The attributes __init__ binds on the instance.  An attribute of the     *)
(* instance hides the method of the class that has the same name.          *)
InstanceAttrs == {"hostname", "blade_type", "remote_port", "local_ip", "loc_port"}

conn_blade_type(c) == Return(c.blade_type)
conn_blade_hostname(c) == Return(c.hostname)
conn_local_ip(c) == Return(c.local_ip)
conn_local_port(c) == Return(c.loc_port)

QueryNames == {"blade_type", "blade_hostname", "local_ip", "local_port"}

(* connection.<name>(): look the name up on the instance first, then on    *)
(* the class; calling a str raises TypeError.                              *)
conn_call(c, name) ==
    IF name \in InstanceAttrs
    THEN Raise("TypeError", "'str' object is not callable")
    ELSE CASE name = "blade_type" -> conn_blade_type(c)
           [] name = "blade_hostname" -> conn_blade_hostname(c)
           [] name = "local_ip" -> conn_local_ip(c)
           [] name = "local_port" -> conn_local_port(c)

----------------------------------------------------------------------------
(* The list comprehension of connect_blades: connections are constructed   *)
(* one at a time, in order; an exception ends the comprehension and leaves *)
(* the connections constructed so far as they are.                         *)

RECURSIVE build_instances(_, _, _, _, _, _)
build_instances(cfg, remote_port, blade_type, instance, count, made) ==
    IF instance >= count THEN [made |-> made, err |-> Return(PyNone)]
    ELSE LET hostname == blade_hostname(cfg, blade_type, PyInt(instance)) IN
         IF hostname.outcome = "raise" THEN [made |-> made, err |-> hostname]
         ELSE build_instances(cfg, remote_port, blade_type, instance + 1, count,
                  Append(made, PrivateBladeConnection(hostname.value, remote_port,
                                                      blade_type)))

RECURSIVE build_connections(_, _, _, _)
build_connections(cfg, remote_port, types, made) ==
    IF Len(types) = 0 THEN [made |-> made, err |-> Return(PyNone)]
    ELSE LET count == blade_count(cfg, Head(types)) IN
         IF count.outcome = "raise" THEN [made |-> made, err |-> count]
         ELSE LET some == build_instances(cfg, remote_port, Head(types), 0,
                                          count.value.v, made) IN
              IF some.err.outcome = "raise" THEN some
              ELSE build_connections(cfg, remote_port, Tail(types), some.made)

(* blade_types if blade_types is not None else [non-base names] *)
batch_types(cfg, types) ==
    IF types.t = "NoneType" THEN non_base_names(provider_virtual_blades(cfg))
    ELSE types.v

----------------------------------------------------------------------------
(* PrivateProvider: each operation gives the object after the call and the *)
(* call's outcome.                                                         *)

PrivateProvider(provider_config) == [config |-> provider_config, prepared |-> FALSE]

guarded(self, msg) ==
    [self |-> self,
     out |-> IF ~self.prepared THEN Raise("ContextualError", msg)
             ELSE Return(PyNone)]

prepare_keeps_flag(self) == [self |-> self, out |-> Return(PyNone)]

prepare(self) == [self |-> [self EXCEPT !.prepared = TRUE], out |-> Return(PyNone)]
validate(self) == guarded(self, "cannot validate an unprepared provider, call prepare() first")
deploy(self) == guarded(self, "cannot deploy an unprepared provider, call prepare() first")
dismantle_clears_flag(self) ==
    [self |-> [self EXCEPT !.prepared = FALSE],
     out |-> IF ~self.prepared THEN Raise("ContextualError", "unprepared")
             ELSE Return(PyNone)]

dismantle(self) == guarded(self, "cannot dismantle an unprepared provider, call prepare() first")
restore(self) == guarded(self, "cannot restore an unprepared provider, call prepare() first")
remove(self) == guarded(self, "cannot deploy an unprepared provider, call prepare() first")
shutdown_guarded(self, virtual_blade_names) ==
    guarded(self, "cannot shut down an unprepared provider, call prepare() first")

shutdown(self, virtual_blade_names) == [self |-> self, out |-> Return(PyNone)]
startup(self, virtual_blade_names) == [self |-> self, out |-> Return(PyNone)]

----------------------------------------------------------------------------
(* Configurations and call arguments.                                      *)
(*                                                                         *)
(* A count is written either as a YAML integer (count: 2) or as a YAML     *)
(* string (count: "2", count: "01"); the code reads it with int(x) in one  *)
(* place and int(x, 0) in another, and the two differ on each of these.    *)
(* The facade hands the registry the provider subtree, and the registry    *)
(* looks some things up under that subtree's own 'provider' key, so the    *)
(* provider subtrees here come both without and with such a nested key.    *)

MaxInstance == 2
MaxTypes == 2

Compute ==
    [count |-> PyStr(<<"2">>), hostnames |-> <<"c0", "c1">>,
     ips |-> <<"10.0.0.1", "10.0.0.2">>]
ComputeInt ==
    [count |-> PyInt(2), hostnames |-> <<"c0", "c1">>,
     ips |-> <<"10.0.0.1", "10.0.0.2">>]
Storage ==
    [count |-> PyStr(<<"0", "1">>), hostnames |-> <<"s0">>, ips |-> <<"10.0.1.1">>,
     pure_base_class |-> FALSE]
Base ==
    [count |-> PyStr(<<"1">>), hostnames |-> <<"b0">>, ips |-> <<"10.0.2.1">>,
     pure_base_class |-> TRUE]

Item(name, entry) == [name |-> name, entry |-> entry]

(* blade_interconnects: a base class without a network_name, an entry      *)
(* whose key is its network_name, one whose key is not, and one without an *)
(* ipv4_cidr; and a dict whose one entry has no network_name.              *)
Interconnects ==
    << Item("base_net", [pure_base_class |-> TRUE, ipv4_cidr |-> "10.0.0.0/8"]),
       Item("net0", [network_name |-> "net0", ipv4_cidr |-> "10.1.0.0/16"]),
       Item("ic1", [network_name |-> "net1", ipv4_cidr |-> "10.2.0.0/16"]),
       Item("net2", [network_name |-> "net2"]) >>

InterconnectsUnnamed == << Item("net0", [ipv4_cidr |-> "10.1.0.0/16"]) >>

Subtrees ==
    { [virtual_blades |-> <<Item("base", Base), Item("compute", Compute),
                            Item("storage", Storage)>>,
       blade_interconnects |-> Interconnects],
      [virtual_blades |-> <<Item("compute", ComputeInt)>>,
       blade_interconnects |-> InterconnectsUnnamed] }

Providers ==
    Subtrees
    \cup { [virtual_blades |-> s.virtual_blades,
            blade_interconnects |-> s.blade_interconnects,
            provider |-> s] : s \in Subtrees }
    \cup { [virtual_blades |-> <<Item("compute", ComputeInt)>>,
            provider |-> [virtual_blades |-> <<Item("storage", Storage)>>]],
           EmptyDict }

Configs == { [provider |-> p] : p \in Providers } \cup { EmptyDict }

BladeTypeNames == {"compute", "storage", "bogus"}

Instances == { PyInt(i) : i \in -1..MaxInstance } \cup { PyStr("x") }

RemotePorts == { PyInt(22) }

InterconnectArgs == {"net0", "net1"}

InterconnectNameArgs == {"net0", "net1", "net2", "ic1", "bogus"}

RECURSIVE SeqsUpTo(_, _)
SeqsUpTo(S, n) ==
    IF n = 0 THEN { <<>> }
    ELSE SeqsUpTo(S, n - 1)
         \cup { Append(q, x) : q \in { r \in SeqsUpTo(S, n - 1) : Len(r) = n - 1 },
                               x \in S }

TypeListArgs == { PyNone } \cup { PyList(q) : q \in SeqsUpTo(BladeTypeNames, MaxTypes) }

BladeNameArgs == { PyNone, PyList(<<"c0">>) }

Call(op) ==
    [op |-> op, blade_type |-> "", instance |-> PyNone, interconnect |-> "",
     types |-> PyNone, conn |-> 0]

LifecycleOps == {"prepare", "validate", "deploy", "dismantle", "restore", "remove"}

----------------------------------------------------------------------------
(* The state machine.  One facade is built from one configuration; the     *)
(* caller then makes calls in any order.  heap holds the connections made  *)
(* by the most recent connect_blade / connect_blades call; scope is the    *)
(* position of the caller's with-block.                                    *)

Init ==
    /\ config \in Configs
    /\ api = [state |-> "new", prepared |-> FALSE, deployed |-> FALSE]
    /\ private = <<>>
    /\ heap = <<>>
    /\ scope = [kind |-> "none", phase |-> "idle", raised |-> FALSE]
    /\ call = Call("")
    /\ out = Return(PyNone)
    /\ prepareCalled = FALSE

Ready == api.state = "ready"

cfg == private[1].config

Construct_unchecked ==
    /\ api.state = "new"
    /\ call' = Call("LayerAPI")
    /\ private' = << PrivateProvider(dict_get(config, "provider", EmptyDict)) >>
    /\ api' = [state |-> "ready", prepared |-> FALSE, deployed |-> FALSE]
    /\ out' = Return(PyNone)
    /\ UNCHANGED <<config, heap, scope, prepareCalled>>

(* LayerAPI.__init__ *)
Construct ==
    /\ api.state = "new"
    /\ call' = Call("LayerAPI")
    /\ IF "provider" \notin DOMAIN config
       THEN /\ api' = [api EXCEPT !.state = "failed"]
            /\ out' = Raise("ContextualError",
                            "no provider configuration found in top level configuration")
            /\ UNCHANGED private
       ELSE /\ private' = << PrivateProvider(config["provider"]) >>
            /\ api' = [state |-> "ready", prepared |-> FALSE, deployed |-> FALSE]
            /\ out' = Return(PyNone)
    /\ UNCHANGED <<config, heap, scope, prepareCalled>>

(* A facade call that delegates to the lifecycle controller. *)
Delegate(op, res) ==
    /\ Ready
    /\ call' = Call(op)
    /\ private' = << res.self >>
    /\ out' = res.out
    /\ UNCHANGED <<config, heap, scope>>

Prepare_forgets_flag ==
    /\ Delegate("prepare", prepare(private[1]))
    /\ prepareCalled' = TRUE
    /\ UNCHANGED api

Prepare ==
    /\ Delegate("prepare", prepare(private[1]))
    /\ api' = [api EXCEPT !.prepared = TRUE]
    /\ prepareCalled' = TRUE

Validate == Delegate("validate", validate(private[1])) /\ UNCHANGED <<api, prepareCalled>>
Deploy_sets_deployed ==
    /\ Delegate("deploy", deploy(private[1]))
    /\ api' = [api EXCEPT !.deployed = private[1].prepared]
    /\ UNCHANGED prepareCalled

Deploy == Delegate("deploy", deploy(private[1])) /\ UNCHANGED <<api, prepareCalled>>
Dismantle == Delegate("dismantle", dismantle(private[1])) /\ UNCHANGED <<api, prepareCalled>>
Restore == Delegate("restore", restore(private[1])) /\ UNCHANGED <<api, prepareCalled>>
Remove == Delegate("remove", remove(private[1])) /\ UNCHANGED <<api, prepareCalled>>

Shutdown ==
    \E names \in BladeNameArgs :
        /\ Delegate("shutdown", shutdown(private[1], names))
        /\ UNCHANGED <<api, prepareCalled>>

Startup ==
    \E names \in BladeNameArgs :
        /\ Delegate("startup", startup(private[1], names))
        /\ UNCHANGED <<api, prepareCalled>>

(* A registry query: get_virtual_blades() hands the registry the           *)
(* controller's configuration, and the query changes nothing.              *)
RegistryCall(c, res) ==
    /\ Ready
    /\ call' = c
    /\ out' = res
    /\ UNCHANGED <<config, api, private, heap, scope, prepareCalled>>

BladeTypes == RegistryCall(Call("blade_types"), blade_types(cfg))

BladeCount ==
    \E bt \in BladeTypeNames :
        RegistryCall([Call("blade_count") EXCEPT !.blade_type = bt],
                     blade_count(cfg, bt))

BladeHostname ==
    \E bt \in BladeTypeNames, i \in Instances :
        RegistryCall([Call("blade_hostname") EXCEPT !.blade_type = bt, !.instance = i],
                     blade_hostname(cfg, bt, i))

BladeIp ==
    \E bt \in BladeTypeNames, i \in Instances, ic \in InterconnectArgs :
        RegistryCall([Call("blade_ip") EXCEPT !.blade_type = bt, !.instance = i,
                                              !.interconnect = ic],
                     blade_ip(cfg, bt, i, ic))

(* The same for get_blade_interconnects(). *)
InterconnectNames ==
    RegistryCall(Call("interconnect_names"), interconnect_names(cfg))

Ipv4Cidr ==
    \E name \in InterconnectNameArgs :
        RegistryCall([Call("ipv4_cidr") EXCEPT !.interconnect = name],
                     ipv4_cidr(cfg, name))

(* with connect_blade(...) as connection: up to the yield *)
ConnectBlade ==
    \E port \in RemotePorts, bt \in BladeTypeNames, i \in Instances :
        LET hostname == blade_hostname(cfg, bt, i) IN
        /\ Ready
        /\ scope.phase # "active"
        /\ call' = [Call("connect_blade") EXCEPT !.blade_type = bt, !.instance = i]
        /\ IF hostname.outcome = "raise"
           THEN /\ heap' = <<>>
                /\ scope' = [kind |-> "blade", phase |-> "failed", raised |-> FALSE]
                /\ out' = hostname
           ELSE /\ heap' = << PrivateBladeConnection(hostname.value, port, bt) >>
                /\ scope' = [kind |-> "blade", phase |-> "active", raised |-> FALSE]
                /\ out' = Return(PyNone)
        /\ UNCHANGED <<config, api, private, prepareCalled>>

(* with connect_blades(...) as connections: up to the yield *)
ConnectBlades ==
    \E port \in RemotePorts, types \in TypeListArgs :
        LET built == build_connections(cfg, port, batch_types(cfg, types), <<>>) IN
        /\ Ready
        /\ scope.phase # "active"
        /\ call' = [Call("connect_blades") EXCEPT !.types = types]
        /\ heap' = built.made
        /\ out' = built.err
        /\ scope' = [kind |-> "blades",
                     phase |-> IF built.err.outcome = "raise" THEN "failed" ELSE "active",
                     raised |-> FALSE]
        /\ UNCHANGED <<config, api, private, prepareCalled>>

(* The caller's with-block ends, normally or by raising: the generator's   *)
(* finally clause disconnects every yielded connection.                    *)
ExitScope ==
    \E raised \in BOOLEAN :
        /\ scope.phase = "active"
        /\ call' = Call("exit")
        /\ heap' = [i \in 1..Len(heap) |-> _disconnect(heap[i])]
        /\ scope' = [scope EXCEPT !.phase = "exited", !.raised = raised]
        /\ out' = IF raised THEN Raise("CallerError", "raised in the with-block")
                  ELSE Return(PyNone)
        /\ UNCHANGED <<config, api, private, prepareCalled>>

(* A query on a connection the caller holds. *)
Query ==
    \E i \in 1..Len(heap), name \in QueryNames :
        /\ scope.phase \in {"active", "exited"}
        /\ call' = [Call(name) EXCEPT !.conn = i]
        /\ out' = conn_call(heap[i], name)
        /\ UNCHANGED <<config, api, private, heap, scope, prepareCalled>>

Next ==
    \/ Construct
    \/ Prepare
    \/ Validate
    \/ Deploy
    \/ Dismantle
    \/ Restore
    \/ Remove
    \/ Shutdown
    \/ Startup
    \/ BladeTypes
    \/ BladeCount
    \/ BladeHostname
    \/ BladeIp
    \/ InterconnectNames
    \/ Ipv4Cidr
    \/ ConnectBlade
    \/ ConnectBlades
    \/ ExitScope
    \/ Query

Spec == Init /\ [][Next]_vars

----------------------------------------------------------------------------
(* Lifecycle *)

GuardedOps == {"validate", "deploy", "dismantle", "restore", "remove"}

NotPrepared(o) ==
    /\ o.outcome = "raise"
    /\ o.exc = "ContextualError"
    /\ o.msg \in { "cannot validate an unprepared provider, call prepare() first",
                   "cannot deploy an unprepared provider, call prepare() first",
                   "cannot dismantle an unprepared provider, call prepare() first",
                   "cannot restore an unprepared provider, call prepare() first" }

(* C1: a validate, deploy, dismantle, restore or remove call fails with    *)
(* the not-prepared error when no prepare call came before it, and         *)
(* succeeds when one did.                                                  *)
C1_GuardedByPrepare ==
    call.op \in GuardedOps =>
        IF prepareCalled THEN out.outcome = "return" ELSE NotPrepared(out)

C1_Witness == call.op = "remove" /\ prepareCalled /\ out.outcome = "return"

(* C2: the prepared flag is false on construction, true after every        *)
(* prepare call, and once true no operation makes it false.                *)
C2_PreparedMonotone ==
    /\ Len(private) = 0
    /\ [][ /\ (Len(private) = 0 /\ Len(private') = 1 => ~private'[1].prepared)
           /\ (call'.op = "prepare" => private'[1].prepared)
           /\ (Len(private) = 1 /\ private[1].prepared => private'[1].prepared) ]_vars

C2_Witness ==
    /\ Len(private) = 1
    /\ private[1].prepared
    /\ call.op = "dismantle"
    /\ out.outcome = "return"

----------------------------------------------------------------------------
(* Scoped connections *)

ConnectOps == {"connect_blade", "connect_blades"}

(* C3: the connection connect_blade yields has its local port set while    *)
(* the with-block runs and unset once the block has ended, whether the     *)
(* block ended normally or by raising.                                     *)
C3_ConnectBladeScope ==
    scope.kind = "blade" =>
        /\ scope.phase = "active" => Len(heap) = 1 /\ heap[1].loc_port # PyNone
        /\ scope.phase = "exited" => Len(heap) = 1 /\ heap[1].loc_port = PyNone

C3_Witness ==
    /\ scope.kind = "blade"
    /\ scope.phase = "exited"
    /\ scope.raised
    /\ call.op = "exit"
    /\ heap[1].loc_port = PyNone

(* C6: a connection is Connected when constructed, only the release at the *)
(* end of the scope changes that, the release leaves it Disconnected, and  *)
(* a Disconnected connection stays Disconnected.                           *)
C6_ConnectionStateMachine ==
    [][ \A i \in 1..Len(heap') :
          IF call'.op \in ConnectOps
          THEN heap'[i].loc_port = PyInt(LocPort)
          ELSE /\ i <= Len(heap)
               /\ (heap[i].loc_port = PyNone => heap'[i].loc_port = PyNone)
               /\ (call'.op = "exit" => heap'[i].loc_port = PyNone)
               /\ (heap'[i].loc_port # heap[i].loc_port => call'.op = "exit") ]_vars

C6_Witness ==
    /\ scope.phase = "exited"
    /\ call.op = "local_port"
    /\ call.conn >= 1
    /\ heap[call.conn].loc_port = PyNone

(* C4: after connect_blades has failed part way through making its         *)
(* connections, no connection it made is left with its local port set.     *)
C4_PartialFailureReleases ==
    call.op = "connect_blades" /\ scope.phase = "failed" =>
        \A i \in 1..Len(heap) : heap[i].loc_port = PyNone

(* C7: on a Connected connection blade_type(), blade_hostname(),           *)
(* local_ip() and local_port() each return the attribute they name, and    *)
(* local_port() returns None once the connection is Disconnected.          *)
C7_QueriesReturnAttributes ==
    call.op \in QueryNames /\ call.conn >= 1 =>
        /\ scope.phase = "active" =>
              out = Return(CASE call.op = "blade_type" -> heap[call.conn].blade_type
                             [] call.op = "blade_hostname" -> heap[call.conn].hostname
                             [] call.op = "local_ip" -> heap[call.conn].local_ip
                             [] call.op = "local_port" -> heap[call.conn].loc_port)
        /\ scope.phase = "exited" /\ call.op = "local_port" => out = Return(PyNone)

----------------------------------------------------------------------------
(* The configuration as the caller wrote it: the blade types are the       *)
(* entries of provider.virtual_blades of the configuration the facade was  *)
(* built from.                                                             *)

ConfiguredBlades == dict_get(config["provider"], "virtual_blades", <<>>)

IsConfigured(blade_type) == odict_has(ConfiguredBlades, blade_type)

ConfiguredEntry(blade_type) == odict_item(ConfiguredBlades, blade_type)

ConfiguredCount(blade_type) ==
    LET count == dict_get(ConfiguredEntry(blade_type), "count", PyInt(0)) IN
    IF count.t = "int" THEN count.v ELSE DecValue(count.v)

IsBase(entry) == "pure_base_class" \in DOMAIN entry /\ entry.pure_base_class

Position(names, name) == CHOOSE j \in 1..Len(names) : names[j] = name

RECURSIVE ExpectedConnections(_)
ExpectedConnections(types) ==
    IF Len(types) = 0 THEN <<>>
    ELSE [i \in 1..ConfiguredCount(Head(types)) |->
             [blade_type |-> PyStr(Head(types)),
              hostname |-> PyStr(ConfiguredEntry(Head(types)).hostnames[i])]]
         \o ExpectedConnections(Tail(types))

(* C5: connect_blades yields one connection per instance of every blade    *)
(* type in blade_types, in order; with blade_types omitted the types are   *)
(* those blade_types() returns; and when the scope has ended every yielded *)
(* connection is released.                                                 *)
C5_OneConnectionPerInstance ==
    scope.kind = "blades" =>
        /\ call.op = "connect_blades" /\ scope.phase = "active" =>
              LET types == IF call.types = PyNone THEN blade_types(cfg).value.v
                           ELSE call.types.v IN
              /\ \A k \in 1..Len(types) : IsConfigured(types[k])
              /\ [i \in 1..Len(heap) |->
                    [blade_type |-> heap[i].blade_type, hostname |-> heap[i].hostname]]
                 = ExpectedConnections(types)
        /\ scope.phase = "exited" => \A i \in 1..Len(heap) : heap[i].loc_port = PyNone

InvalidArgument(o) ==
    /\ o.outcome = "raise"
    /\ o.exc = "ContextualError"
    /\ o.msg \in {"instance number must be integer", "instance number out of range"}

NotFound(o) ==
    /\ o.outcome = "raise"
    /\ o.exc = "ContextualError"
    /\ o.msg = "unknown blade type"

(* C8: for a configured blade type and an instance i with 0 <= i < count,  *)
(* blade_hostname and blade_ip return element i of the configured          *)
(* hostnames and ips; for any other instance they fail with the            *)
(* invalid-argument error.                                                 *)
C8_IndexedByInstance ==
    /\ call.op \in {"blade_hostname", "blade_ip"}
    /\ call.conn = 0
    /\ IsConfigured(call.blade_type)
    =>
        IF call.instance.t = "int" /\ call.instance.v >= 0
           /\ call.instance.v < ConfiguredCount(call.blade_type)
        THEN out = Return(PyStr(
                 IF call.op = "blade_hostname"
                 THEN ConfiguredEntry(call.blade_type).hostnames[call.instance.v + 1]
                 ELSE ConfiguredEntry(call.blade_type).ips[call.instance.v + 1]))
        ELSE InvalidArgument(out)

(* C9: blade_types() returns the configured blade types that are not pure  *)
(* base classes, each exactly once, in configuration order, and no pure    *)
(* base class.                                                             *)
C9_BladeTypesNonBase ==
    call.op = "blade_types" =>
        /\ out.outcome = "return"
        /\ out.value.t = "list"
        /\ LET names == out.value.v
               all == odict_keys(ConfiguredBlades) IN
           /\ \A i \in 1..Len(ConfiguredBlades) :
                 Cardinality({ j \in 1..Len(names) : names[j] = ConfiguredBlades[i].name })
                 = IF IsBase(ConfiguredBlades[i].entry) THEN 0 ELSE 1
           /\ \A j \in 1..Len(names) : IsConfigured(names[j])
           /\ \A j, k \in 1..Len(names) :
                 j < k => Position(all, names[j]) < Position(all, names[k])

C9_Witness ==
    /\ call.op = "blade_types"
    /\ out.outcome = "return"
    /\ out.value = PyList(<<"compute", "storage">>)
    /\ Len(ConfiguredBlades) = 3

(* C10: through the facade, blade_count(t) returns the configured count of *)
(* every blade type t of the configuration and fails with the not-found    *)
(* error only for names the configuration does not have.                   *)
C10_BladeCountConfigured ==
    call.op = "blade_count" /\ "virtual_blades" \in DOMAIN config["provider"] =>
        IF IsConfigured(call.blade_type)
        THEN out = Return(PyInt(ConfiguredCount(call.blade_type)))
        ELSE NotFound(out)

----------------------------------------------------------------------------
(* Blade Interconnects as the caller wrote them: the entries of            *)
(* provider.blade_interconnects; an interconnect's name is the             *)
(* network_name of an entry that is not a pure base class.                 *)

ConfiguredInterconnects == dict_get(config["provider"], "blade_interconnects", <<>>)

NamedInterconnects(name) ==
    { i \in 1..Len(ConfiguredInterconnects) :
        LET e == ConfiguredInterconnects[i].entry IN
        /\ ~IsBase(e)
        /\ "network_name" \in DOMAIN e
        /\ e["network_name"] = name }

NotFoundInterconnect(o) ==
    /\ o.outcome = "raise"
    /\ o.exc = "ContextualError"
    /\ o.msg = "unknown blade interconnect"

MissingCidr(o) ==
    /\ o.outcome = "raise"
    /\ o.exc = "ContextualError"
    /\ o.msg = "no 'ipv4_cidr' found in blade interconnect"

(* C11: ipv4_cidr(name) returns the configured ipv4_cidr of the            *)
(* interconnect for every name interconnect_names() returns; it fails with *)
(* the not-found error only for a name no configured interconnect has, and *)
(* with the configuration error only when the named entry has no           *)
(* ipv4_cidr.                                                              *)
C11_NamesAcceptedByIpv4Cidr ==
    call.op = "ipv4_cidr" =>
        LET names == interconnect_names(cfg)
            named == NamedInterconnects(call.interconnect) IN
        /\ \A i \in named :
              LET e == ConfiguredInterconnects[i].entry IN
              /\ names.outcome = "return"
              /\ \E j \in 1..Len(names.value.v) : names.value.v[j] = call.interconnect
              /\ "ipv4_cidr" \in DOMAIN e
              => out = Return(PyStr(e["ipv4_cidr"]))
        /\ NotFoundInterconnect(out) => named = {}
        /\ MissingCidr(out) =>
              \E i \in named : "ipv4_cidr" \notin DOMAIN ConfiguredInterconnects[i].entry

----------------------------------------------------------------------------
(* The facade *)

(* C12: building the facade from a configuration without a provider        *)
(* subtree fails with the configuration error and creates no lifecycle     *)
(* controller; with a provider subtree it succeeds and the provider is     *)
(* unprepared.                                                             *)
C12_ConstructionNeedsProvider ==
    /\ "provider" \notin DOMAIN config => Len(private) = 0 /\ api.state # "ready"
    /\ call.op = "LayerAPI" =>
          IF "provider" \notin DOMAIN config
          THEN /\ out = Raise("ContextualError",
                              "no provider configuration found in top level configuration")
               /\ api.state = "failed"
          ELSE /\ out.outcome = "return"
               /\ api.state = "ready"
               /\ Len(private) = 1
               /\ private[1].config = config["provider"]
               /\ ~private[1].prepared
               /\ ~api.prepared

C12_Witness ==
    /\ call.op = "LayerAPI"
    /\ out.outcome = "raise"
    /\ api.state = "failed"
    /\ Len(private) = 0

(* C13: shutdown and startup succeed in every state of a built facade,     *)
(* prepared or not and with or without blade names, and change nothing of  *)
(* the provider's state.                                                   *)
C13_ShutdownStartupNoPrecondition ==
    /\ [](Ready =>
            /\ ENABLED Shutdown
            /\ ENABLED Startup
            /\ \A names \in BladeNameArgs :
                  /\ shutdown(private[1], names) = [self |-> private[1], out |-> Return(PyNone)]
                  /\ startup(private[1], names) = [self |-> private[1], out |-> Return(PyNone)])
    /\ [][ call'.op \in {"shutdown", "startup"} =>
              /\ out'.outcome = "return"
              /\ UNCHANGED <<config, api, private, heap, scope, prepareCalled>> ]_vars

C13_Witness ==
    /\ call.op = "shutdown"
    /\ out.outcome = "return"
    /\ ~private[1].prepared
    /\ scope.phase = "active"

C15_PreparedFlagsAgree ==
    /\ Len(private) = 0 => ~api.prepared
    /\ Len(private) = 1 =>
          /\ api.prepared = private[1].prepared
          /\ api.prepared = prepareCalled

C15_Witness ==
    /\ call.op = "prepare"
    /\ api.prepared
    /\ private[1].prepared

(* C16: the facade's deployed flag is false in every state, also after a   *)
(* deploy call that succeeded.                                             *)
C16_DeployedNeverSet == ~api.deployed

C16_Witness ==
    /\ call.op = "deploy"
    /\ out.outcome = "return"
    /\ private[1].prepared
    /\ ~api.deployed

====
